---- MODULE Spec2Model ----
(***************************************************************************)
(* Model of app.py, the Streamlit NAFLD lifestyle risk predictor.          *)
(*                                                                         *)
(* One script run is: load the pipeline, load the feature list, render one *)
(* widget per feature, build the ordered value list, and, when the Predict *)
(* button was pressed, run the try/except prediction block.  Streamlit     *)
(* re-runs the whole script on every interaction (Rerun).                  *)
(*                                                                         *)
(* Numbers entered in widgets are integers in tenths (28.0 is 280).        *)
(* Probabilities are integers in units of 1/Scale (0.5 is 5000), and a     *)
(* risk percentage is an integer in tenths of a percent (50.0 is 500).     *)
(* A widget value is a record [s, n]: a selectbox returns text (n = 0), a  *)
(* slider or number_input returns a number (s = "").                       *)
(***************************************************************************)
EXTENDS Integers, Sequences, FiniteSets, TLC

\* ------------------------------------------------------------------ bounds

\* Longest feature_order.json list explored.
MaxLen == 3

\* Half-width of the window of probabilities explored around 0.5.
NearHalf == 6

\* Probability grid: one unit is 1/Scale.
Scale == 10 * 1000

Half == Scale \div 2

\* ------------------------------------------------------- helper operators

Range(s) == { s[i] : i \in 1..Len(s) }

RECURSIVE Join(_)
\* The Python string spelled by a sequence of chunks.
Join(chunks) ==
    IF chunks = <<>> THEN "" ELSE Head(chunks) \o Join(Tail(chunks))

Cat(text) == [s |-> text, n |-> 0]

Num(x) == [s |-> "", n |-> x]

\* -------------------------------------------------- feature_order.json

\* Whitespace chunks, as str.strip() sees them.
Whitespace == {" ", "\t"}

\* The entries feature_order.json may hold, each a sequence of chunks
\* (a chunk is whitespace or a run of text without surrounding whitespace).
RawEntries ==
    { <<>>,
      <<" ">>,
      <<"Gender">>,
      <<" ", "Gender", "\t">>,
      <<"BMI">>,
      <<"BMI", " ">>,
      <<"Total calorie intake (kcal)">>,
      <<"Waist">> }

RECURSIVE SeqsUpTo(_, _)
SeqsUpTo(S, k) ==
    IF k = 0 THEN { <<>> }
    ELSE LET shorter == SeqsUpTo(S, k - 1)
         IN  shorter \cup { Append(q, e) : q \in shorter, e \in S }

\* A file the open()/json.load of load_features cannot read, or a list.
FeatureFiles ==
    { [readable |-> FALSE, feats |-> <<>>] }
    \cup { [readable |-> TRUE, feats |-> q] : q \in SeqsUpTo(RawEntries, MaxLen) }

\* ---------------------------------------------------------- load_features

RECURSIVE lstrip(_)
lstrip(e) ==
    IF e # <<>> /\ Head(e) \in Whitespace THEN lstrip(Tail(e)) ELSE e

RECURSIVE rstrip(_)
rstrip(e) ==
    IF e # <<>> /\ e[Len(e)] \in Whitespace
    THEN rstrip(SubSeq(e, 1, Len(e) - 1))
    ELSE e

\* str(x).strip()
strip(e) == Join(rstrip(lstrip(e)))

RECURSIVE sanitize(_, _, _)
\* The loop of load_features over feats, with its accumulators clean, seen.
sanitize(feats, clean, seen) ==
    IF feats = <<>> THEN clean
    ELSE LET name == strip(Head(feats))
         IN  IF name # "" /\ name \notin seen
             THEN sanitize(Tail(feats), Append(clean, name), seen \cup {name})
             ELSE sanitize(Tail(feats), clean, seen)

RECURSIVE sanitize_nodedup(_, _, _)
\* load_features with the "name not in seen" test forgotten.
sanitize_nodedup(feats, clean, seen) ==
    IF feats = <<>> THEN clean
    ELSE LET name == strip(Head(feats))
         IN  IF name # ""
             THEN sanitize_nodedup(Tail(feats), Append(clean, name), seen)
             ELSE sanitize_nodedup(Tail(feats), clean, seen)

load_features_nodedup(feats) == sanitize_nodedup(feats, <<>>, {})

load_features(feats) == sanitize(feats, <<>>, {})

\* --------------------------------------------------------- UI dictionaries

CATEGORICAL_CHOICES ==
    [ n \in {"Gender", "Race/Ethnicity", "Smoking status", "Sleep Disorder Status"} |->
        CASE n = "Gender" -> <<"Male", "Female">>
          [] n = "Race/Ethnicity" ->
                <<"Non-Hispanic White", "Non-Hispanic Black", "Hispanic", "Other">>
          [] n = "Smoking status" -> <<"Never", "Former", "Current">>
          [] n = "Sleep Disorder Status" -> <<"No", "Yes">> ]

\* One preset, in tenths.
Preset(lo, hi, v, st) == [min_value |-> lo, max_value |-> hi, value |-> v, step |-> st]

RANGE_PRESETS ==
    ( "Age in years" :> Preset(180, 850, 400, 10) )
    @@ ( "Family income ratio" :> Preset(0, 50, 20, 1) )
    @@ ( "Sleep duration (hours/day)" :> Preset(30, 120, 70, 5) )
    @@ ( "Work schedule duration (hours)" :> Preset(0, 160, 80, 5) )
    @@ ( "Physical activity (minutes/day)" :> Preset(0, 3000, 300, 50) )
    @@ ( "BMI" :> Preset(150, 500, 280, 1) )
    @@ ( "Number of days drank in the past year" :> Preset(0, 3650, 0, 10) )
    @@ ( "Alcohol consumption (days/week)" :> Preset(0, 70, 0, 5) )
    @@ ( "Alcohol drinks per day" :> Preset(0, 100, 0, 5) )
    @@ ( "Max number of drinks on any single day" :> Preset(0, 200, 0, 10) )
    @@ ( "Alcohol intake frequency (drinks/day)" :> Preset(0, 100, 0, 1) )
    @@ ( "Total calorie intake (kcal)" :> Preset(8000, 50000, 22000, 500) )
    @@ ( "Total fat (g)" :> Preset(100, 2000, 700, 10) )
    @@ ( "Saturated fat (g)" :> Preset(0, 800, 250, 10) )
    @@ ( "Added sugar (g)" :> Preset(0, 1500, 300, 10) )
    @@ ( "Dietary fiber (g)" :> Preset(0, 800, 200, 10) )
    @@ ( "Fruit/veg servings per day" :> Preset(0, 100, 30, 5) )
    @@ ( "Sugary drinks per week" :> Preset(0, 500, 0, 10) )

\* GROUPS.items(), in insertion order.
GROUPS ==
    << [name |-> "Demographics",
        feats |-> <<"Gender", "Age in years", "Race/Ethnicity",
                    "Family income ratio", "Smoking status">>],
       [name |-> "Sleep & Activity",
        feats |-> <<"Sleep Disorder Status", "Sleep duration (hours/day)",
                    "Work schedule duration (hours)",
                    "Physical activity (minutes/day)">>],
       [name |-> "Anthropometrics", feats |-> <<"BMI">>],
       [name |-> "Alcohol",
        feats |-> <<"Number of days drank in the past year",
                    "Alcohol consumption (days/week)", "Alcohol drinks per day",
                    "Max number of drinks on any single day",
                    "Alcohol intake frequency (drinks/day)">>],
       [name |-> "Diet",
        feats |-> <<"Total calorie intake (kcal)", "Total fat (g)",
                    "Saturated fat (g)", "Added sugar (g)", "Dietary fiber (g)",
                    "Fruit/veg servings per day", "Sugary drinks per week">>] >>

\* ---------------------------------------------------------------- widgets

\* st.selectbox(name, options): the user picks one of the options.
selectbox(options) == { Cat(options[k]) : k \in 1..Len(options) }

\* The positions of a numeric widget tried by the user: the ends of its
\* range, its default, and one step beyond either end.
Tried(p) ==
    { p.min_value - p.step, p.min_value, p.value, p.max_value,
      p.max_value + p.step }

\* A numeric widget that does not enforce max_value.
bounded_no_max(p) == { Num(v) : v \in { t \in Tried(p) : p.min_value <= t } }

\* st.slider / st.number_input with min_value and max_value: the widget
\* holds a number of [min_value, max_value].
bounded(p) ==
    { Num(v) : v \in { t \in Tried(p) : p.min_value <= t /\ t <= p.max_value } }

\* st.number_input(name, value=0.0, step=0.1): any number.
number_input_free == { Num(-1), Num(0) }

\* The values widget_for(name) can return.
widget_for(name) ==
    IF name \in DOMAIN CATEGORICAL_CHOICES
    THEN selectbox(CATEGORICAL_CHOICES[name])
    ELSE IF name \in DOMAIN RANGE_PRESETS
         THEN LET p == RANGE_PRESETS[name]
              IN  IF p.max_value - p.min_value <= 2000
                  THEN bounded(p)      \* st.slider
                  ELSE bounded(p)      \* st.number_input
         ELSE number_input_free

\* What the user has set each rendered widget to: one value per field.
WidgetStates(names) ==
    { ui \in [names -> UNION { widget_for(f) : f \in names }] :
        \A f \in names : ui[f] \in widget_for(f) }

\* ---------------------------------------------------------- input rendering

\* [f for f in FEATURES if f in group_feats]
in_group(F, group_feats) == SelectSeq(F, LAMBDA f : f \in Range(group_feats))

\* With the "Other" section left out.
remaining_dropped(F) == <<>>

\* [f for f in FEATURES if all(f not in g for g in GROUPS.values())]
remaining(F) ==
    SelectSeq(F, LAMBDA f : \A g \in 1..Len(GROUPS) : f \notin Range(GROUPS[g].feats))

RECURSIVE render_fields(_, _, _)
\* for i, fname in enumerate(feats): values_dict[fname] = widget_for(fname)
\* r is [dict, calls]: values_dict so far, and the widgets created so far.
render_fields(feats, ui, r) ==
    IF feats = <<>> THEN r
    ELSE LET fname == Head(feats)
         IN  render_fields(Tail(feats), ui,
                 [dict  |-> (fname :> ui[fname]) @@ r.dict,
                  calls |-> Append(r.calls, fname)])

RECURSIVE render_groups(_, _, _, _)
\* for group_name, group_feats in GROUPS.items(): ...
render_groups(g, F, ui, r) ==
    IF g > Len(GROUPS) THEN r
    ELSE render_groups(g + 1, F, ui,
             render_fields(in_group(F, GROUPS[g].feats), ui, r))

\* Lines 131-150: the group loop, then the "Other" section.
render(F, ui) ==
    render_fields(remaining(F), ui,
        render_groups(1, F, ui, [dict |-> <<>>, calls |-> <<>>]))

\* Building the vector in the order the widgets were rendered.
values_in_render_order(F, dict, calls) == [i \in 1..Len(calls) |-> dict[calls[i]]]

\* values = [values_dict[f] for f in FEATURES]
values_of(F, dict, calls) == [i \in 1..Len(F) |-> dict[F[i]]]

\* ------------------------------------------------------------ the pipeline

\* What pipeline.predict_proba(X)[:, 1][0] can do: raise, or return a number
\* (an artifact is opaque: the number may lie outside 0..1).
Probabilities ==
    { -1, 0, 6200, Scale, Scale + 1 } \cup ((Half - NearHalf)..(Half + NearHalf))

ModelOutcomes ==
    { [raises |-> TRUE, p |-> 0] }
    \cup { [raises |-> FALSE, p |-> u] : u \in Probabilities }

\* round(.., 1) cutting the second decimal instead of rounding it.
round1_trunc(u) == { u \div 10 }

\* round(proba * 100, 1), in tenths of a percent.  Python rounds the binary
\* float proba * 100 to the nearest tenth; where the decimal value is exactly
\* halfway, the float's representation error decides, so either neighbour is
\* possible.
round1(u) ==
    LET q == u \div 10
        r == u % 10
    IN  IF r < 5 THEN { q } ELSE IF r > 5 THEN { q + 1 } ELSE { q, q + 1 }

\* The band with a strict comparison.
band_strict(pct) == IF pct > 500 THEN "High risk" ELSE "Low/moderate risk"

\* band = "High risk" if pct >= 50 else "Low/moderate risk"
band_of(pct) == IF pct >= 500 THEN "High risk" ELSE "Low/moderate risk"

\* A progress bar that accepts any number.
progress_any(p) == TRUE

\* prog.progress(proba, ...): st.progress takes a float of 0.0..1.0 and
\* raises StreamlitAPIException for any other.
progress_ok(p) == 0 <= p /\ p <= Scale

NoFrame == [columns |-> <<>>, row |-> <<>>]

\* X = pd.DataFrame([values], columns=FEATURES): one row under the columns;
\* raises when the row and the columns differ in length.
DataFrame(vals, F) == [columns |-> F, row |-> vals]

EmptyBox == [kind |-> "empty", pct |-> 0, band |-> ""]

ErrorBox == [kind |-> "error", pct |-> 0, band |-> ""]

Hidden == [shown |-> FALSE, value |-> 0]

\* The state a request starts in: nothing computed, the placeholders of
\* st.empty() blank.
NoRequest ==
    [X |-> NoFrame, invoked |-> FALSE, out |-> [raises |-> FALSE, p |-> 0],
     proba |-> 0, pct |-> 0, band |-> "", failure |-> "none",
     prog |-> Hidden, msg_box |-> EmptyBox, metric_box |-> Hidden]

\* The try block with prog.progress moved after the message and the metric.
predict_block_late_progress(bound, vals, F, out, pct) ==
    IF Len(vals) # Len(F)
    THEN [NoRequest EXCEPT !.out = out, !.failure = "frame", !.msg_box = ErrorBox]
    ELSE IF ~bound
    THEN [NoRequest EXCEPT !.out = out, !.X = DataFrame(vals, F),
                           !.failure = "unbound", !.msg_box = ErrorBox]
    ELSE IF out.raises
    THEN [NoRequest EXCEPT !.out = out, !.X = DataFrame(vals, F), !.invoked = TRUE,
                           !.failure = "model", !.msg_box = ErrorBox]
    ELSE LET done == [NoRequest EXCEPT
                         !.out = out, !.X = DataFrame(vals, F), !.invoked = TRUE,
                         !.proba = out.p, !.pct = pct, !.band = band_of(pct),
                         !.msg_box = [kind |-> "success", pct |-> pct,
                                      band |-> band_of(pct)],
                         !.metric_box = [shown |-> TRUE, value |-> pct]]
         IN  IF progress_ok(out.p)
             THEN [done EXCEPT !.prog = [shown |-> TRUE, value |-> out.p]]
             ELSE [done EXCEPT !.failure = "progress", !.msg_box = ErrorBox]

\* Lines 164-174, for the outcome out of the pipeline and the rounding pct:
\* the frame, the call, pct and band, then the three displays; any exception
\* ends in msg_box.error.
predict_block(bound, vals, F, out, pct) ==
    IF Len(vals) # Len(F)
    THEN [NoRequest EXCEPT !.out = out, !.failure = "frame", !.msg_box = ErrorBox]
    ELSE IF ~bound
    THEN [NoRequest EXCEPT !.out = out, !.X = DataFrame(vals, F),
                           !.failure = "unbound", !.msg_box = ErrorBox]
    ELSE IF out.raises
    THEN [NoRequest EXCEPT !.out = out, !.X = DataFrame(vals, F), !.invoked = TRUE,
                           !.failure = "model", !.msg_box = ErrorBox]
    ELSE LET computed == [NoRequest EXCEPT
                             !.out = out, !.X = DataFrame(vals, F),
                             !.invoked = TRUE, !.proba = out.p, !.pct = pct,
                             !.band = band_of(pct)]
         IN  IF ~progress_ok(out.p)
             THEN [computed EXCEPT !.failure = "progress", !.msg_box = ErrorBox]
             ELSE [computed EXCEPT
                      !.prog = [shown |-> TRUE, value |-> out.p],
                      !.msg_box = [kind |-> "success", pct |-> pct,
                                   band |-> band_of(pct)],
                      !.metric_box = [shown |-> TRUE, value |-> pct]]

\* A load failure that does not stop the run.
st_stop_missing(next) == next

\* st.stop(): the script run ends here.
st_stop(next) == "stopped"

\* ------------------------------------------------------------------- state

VARIABLES
    pipeline_file,   \* whether joblib.load("pipeline.pkl") succeeds
    feature_file,    \* feature_order.json
    cache,           \* what st.cache_resource holds
    pc,              \* where the script run is
    pipeline,        \* TRUE once the name pipeline is bound
    FEATURES,        \* [bound, list]: the name FEATURES
    top_error,       \* the st.error of a failed load
    ui,              \* what the user has set the widgets to
    values_dict,
    widget_calls,    \* the names widget_for was called for, in order
    values,
    go,              \* the Predict button
    req              \* the prediction block's variables and displays

vars == << pipeline_file, feature_file, cache, pc, pipeline, FEATURES, top_error,
           ui, values_dict, widget_calls, values, go, req >>

Unbound == [bound |-> FALSE, list |-> <<>>]

Init ==
    /\ pipeline_file \in {"ok", "bad"}
    /\ feature_file \in FeatureFiles
    /\ cache = [pipeline |-> FALSE, features |-> Unbound]
    /\ pc = "start"
    /\ pipeline = FALSE
    /\ FEATURES = Unbound
    /\ top_error = "none"
    /\ ui = <<>>
    /\ values_dict = <<>>
    /\ widget_calls = <<>>
    /\ values = <<>>
    /\ go = FALSE
    /\ req = NoRequest

\* Lines 37-41.
LoadPipeline ==
    /\ pc = "start"
    /\ IF cache.pipeline \/ pipeline_file = "ok"
       THEN /\ pipeline' = TRUE
            /\ cache' = [cache EXCEPT !.pipeline = TRUE]
            /\ pc' = "pipeline_done"
            /\ UNCHANGED top_error
       ELSE /\ top_error' = "pipeline"
            /\ pc' = st_stop("pipeline_done")
            /\ UNCHANGED << pipeline, cache >>
    /\ UNCHANGED << pipeline_file, feature_file, FEATURES, ui, values_dict,
                    widget_calls, values, go, req >>

\* Lines 43-47.
LoadFeatures ==
    /\ pc = "pipeline_done"
    /\ IF cache.features.bound
       THEN /\ FEATURES' = cache.features
            /\ pc' = "features_done"
            /\ UNCHANGED << cache, top_error >>
       ELSE IF feature_file.readable
       THEN /\ FEATURES' = [bound |-> TRUE, list |-> load_features(feature_file.feats)]
            /\ cache' = [cache EXCEPT !.features = FEATURES']
            /\ pc' = "features_done"
            /\ UNCHANGED top_error
       ELSE /\ top_error' = "features"
            /\ pc' = st_stop("features_done")
            /\ UNCHANGED << FEATURES, cache >>
    /\ UNCHANGED << pipeline_file, feature_file, pipeline, ui, values_dict,
                    widget_calls, values, go, req >>

\* Lines 127-153: the widgets, then the ordered value list.  An unbound
\* FEATURES (NameError) or a name missing from values_dict (KeyError) is
\* raised outside any try.
RenderInputs ==
    /\ pc = "features_done"
    /\ IF ~FEATURES.bound
       THEN /\ pc' = "crashed"
            /\ UNCHANGED << ui, values_dict, widget_calls, values >>
       ELSE \E u \in WidgetStates(Range(FEATURES.list)) :
              LET r == render(FEATURES.list, u)
              IN  /\ ui' = u
                  /\ values_dict' = r.dict
                  /\ widget_calls' = r.calls
                  /\ IF Range(FEATURES.list) \subseteq DOMAIN r.dict
                     THEN /\ values' = values_of(FEATURES.list, r.dict, r.calls)
                          /\ pc' = "inputs_done"
                     ELSE /\ values' = <<>>
                          /\ pc' = "crashed"
    /\ UNCHANGED << pipeline_file, feature_file, cache, pipeline, FEATURES,
                    top_error, go, req >>

\* Lines 156-163 with the button not pressed.
NoClick ==
    /\ pc = "inputs_done"
    /\ go' = FALSE
    /\ pc' = "done"
    /\ UNCHANGED << pipeline_file, feature_file, cache, pipeline, FEATURES,
                    top_error, ui, values_dict, widget_calls, values, req >>

\* Lines 156-174 with the button pressed.
Predict ==
    /\ pc = "inputs_done"
    /\ go' = TRUE
    /\ \E out \in ModelOutcomes :
         \E pct \in round1(out.p) :
           req' = predict_block(pipeline, values, FEATURES.list, out, pct)
    /\ pc' = "done"
    /\ UNCHANGED << pipeline_file, feature_file, cache, pipeline, FEATURES,
                    top_error, ui, values_dict, widget_calls, values >>

\* Any interaction re-runs the script from the top, with nothing bound and
\* nothing displayed; only the cache stays.
Rerun ==
    /\ pc \in {"done", "stopped", "crashed"}
    /\ pc' = "start"
    /\ pipeline' = FALSE
    /\ FEATURES' = Unbound
    /\ top_error' = "none"
    /\ ui' = <<>>
    /\ values_dict' = <<>>
    /\ widget_calls' = <<>>
    /\ values' = <<>>
    /\ go' = FALSE
    /\ req' = NoRequest
    /\ UNCHANGED << pipeline_file, feature_file, cache >>

Next ==
    \/ LoadPipeline
    \/ LoadFeatures
    \/ RenderInputs
    \/ NoClick
    \/ Predict
    \/ Rerun

Spec == Init /\ [][Next]_vars

\* ------------------------------------------------------------------ claims

Schema == FEATURES.list

\* The name-to-value mapping read back from a frame by column position.
ReadBack(frame) ==
    [ f \in Range(frame.columns) |->
        frame.row[CHOOSE i \in 1..Len(frame.columns) : frame.columns[i] = f] ]

\* C1: the vector handed to the model has one entry per schema position,
\* entry i is the value the user supplied for the feature FEATURES[i], and
\* reading the vector back by schema order gives the user's name-to-value
\* mapping again, whatever the order in which the groups rendered the fields.
C1_VectorMatchesSchema ==
    req.invoked =>
        /\ req.X.columns = Schema
        /\ Len(req.X.row) = Len(Schema)
        /\ \A i \in 1..Len(Schema) : req.X.row[i] = ui[Schema[i]]
        /\ ReadBack(req.X) = ui

\* A three-feature schema whose widgets were rendered in another order than
\* the schema's, scored by the model.
C1_Witness ==
    /\ req.invoked
    /\ Len(Schema) = 3
    /\ widget_calls # Schema
    /\ req.X.row[1] # req.X.row[2]

\* C2: the band shown is High exactly when the percentage shown (the
\* probability times 100, rounded to one decimal) is at least 50.0, and
\* Low/moderate otherwise, on every request.
C2_BandIffPctAtLeast50 ==
    req.msg_box.kind = "success" =>
        /\ req.msg_box.pct \in round1(req.proba)
        /\ req.msg_box.band \in {"High risk", "Low/moderate risk"}
        /\ req.msg_box.band = "High risk" <=> req.msg_box.pct >= 500

\* A result of exactly 50.0 percent, shown as High.
C2_Witness ==
    /\ req.msg_box.kind = "success"
    /\ req.msg_box.pct = 500
    /\ req.msg_box.band = "High risk"

\* The declared domain of a field: the choice set of a categorical field,
\* [min_value, max_value] of a field with a preset, any number otherwise.
InDomain(name, v) ==
    IF name \in DOMAIN CATEGORICAL_CHOICES
    THEN v.s \in Range(CATEGORICAL_CHOICES[name])
    ELSE IF name \in DOMAIN RANGE_PRESETS
         THEN /\ v.s = ""
              /\ RANGE_PRESETS[name].min_value <= v.n
              /\ v.n <= RANGE_PRESETS[name].max_value
         ELSE v.s = ""

C4_FailureShowsOnlyMessage ==
    /\ pc # "crashed"
    /\ req.failure # "none" =>
          /\ req.msg_box = ErrorBox
          /\ ~req.prog.shown
          /\ ~req.metric_box.shown
    /\ (pc = "done" /\ go /\ req.out.raises) => req.failure = "model"

\* A request whose model call raised.
C4_Witness ==
    /\ pc = "done"
    /\ go
    /\ req.invoked
    /\ req.failure = "model"
    /\ req.msg_box.kind = "error"

\* C5: the model is only ever invoked with the pipeline and the schema
\* loaded; a run whose pipeline or schema failed to load has stopped with no
\* widget rendered, no input collected and no prediction made.
C5_NoPredictionWithoutArtifacts ==
    /\ req.invoked => (pipeline /\ FEATURES.bound)
    /\ top_error # "none" =>
          /\ pc = "stopped"
          /\ widget_calls = <<>>
          /\ ui = <<>>
          /\ values = <<>>
          /\ req = NoRequest

\* A run stopped because feature_order.json could not be read, the pipeline
\* having loaded.
C5_Witness ==
    /\ pc = "stopped"
    /\ top_error = "features"
    /\ pipeline
    /\ ~FEATURES.bound

\* The first position of the source whose trimmed entry is name.
FirstSeen(src, name) ==
    CHOOSE k \in 1..Len(src) :
        /\ strip(src[k]) = name
        /\ \A j \in 1..(k - 1) : strip(src[j]) # name

\* C6: the loaded schema holds exactly the trimmed, non-empty entries of the
\* source, each once, in the order of their first occurrence.
C6_SchemaIsNormalizedSource ==
    FEATURES.bound =>
        LET src == feature_file.feats
        IN  /\ \A i \in 1..Len(Schema) : Schema[i] # ""
            /\ \A i, j \in 1..Len(Schema) : i # j => Schema[i] # Schema[j]
            /\ Range(Schema) = { strip(src[k]) : k \in 1..Len(src) } \ {""}
            /\ \A i, j \in 1..Len(Schema) :
                  i < j => FirstSeen(src, Schema[i]) < FirstSeen(src, Schema[j])

\* A source with a blank entry and two spellings of one name, loaded as a
\* schema of two names.
C6_Witness ==
    /\ FEATURES.bound
    /\ Len(feature_file.feats) = 3
    /\ \E k \in 1..3 : strip(feature_file.feats[k]) = ""
    /\ \E i, j \in 1..3 :
          /\ i < j
          /\ feature_file.feats[i] # feature_file.feats[j]
          /\ strip(feature_file.feats[i]) = strip(feature_file.feats[j])
          /\ strip(feature_file.feats[i]) # ""
    /\ Len(Schema) = 1

\* C7: the schema returned by loading is never empty.
C7_SchemaNeverEmpty ==
    FEATURES.bound => Schema # <<>>

HalfStep == (Scale \div 1000) \div 2

\* C9 as claimed: every probability strictly below 0.5 is shown as
\* Low/moderate, and exactly 0.5 as High.
C9_BelowHalfIsLow ==
    req.msg_box.kind = "success" =>
        /\ req.proba < Half => req.msg_box.band = "Low/moderate risk"
        /\ req.proba = Half => req.msg_box.band = "High risk"

\* C9 as amended: the percentage is rounded to one decimal before the
\* comparison, so a probability is shown as Low/moderate when its rounded
\* percentage is below 50.0, which on the grid is every probability below
\* 0.4995, and as High when it is above 0.4995, exactly 0.5 included.
C9_RoundedBelow50IsLow ==
    req.msg_box.kind = "success" =>
        /\ req.msg_box.pct < 500 => req.msg_box.band = "Low/moderate risk"
        /\ req.proba < Half - HalfStep => req.msg_box.band = "Low/moderate risk"
        /\ req.proba > Half - HalfStep => req.msg_box.band = "High risk"
        /\ req.proba = Half => req.msg_box.pct = 500

\* A probability of 0.4996, strictly below 0.5, shown as 50.0 percent, High.
C9_Witness ==
    /\ req.msg_box.kind = "success"
    /\ req.proba = Half - HalfStep + 1
    /\ req.msg_box.pct = 500
    /\ req.msg_box.band = "High risk"

====
